---- MODULE Spec2Model ----
(***************************************************************************)
(* Model of package ternary (Kleene three-valued logic), ternary.go.       *)
(*                                                                         *)
(* The package is a set of pure functions over type Value (int8).  The     *)
(* model is a caller that invokes one function at a time: fn and args      *)
(* record the call, ret the tuple of returned values.  All and Any are     *)
(* modelled statement by statement (entry, loop iterations, return) so     *)
(* that the elements they read are observable.                             *)
(*                                                                         *)
(* A Go string is a sequence of one-character strings.  A Go error is the  *)
(* tuple of the segments of its message; nil is the empty tuple.           *)
(***************************************************************************)
EXTENDS Integers, Sequences, FiniteSets

VARIABLES fn, args, ret, pc, t, i, examined

vars == <<fn, args, ret, pc, t, i, examined>>

----------------------------------------------------------------------------
(* Bounds of the inputs the caller draws.                                  *)

MaxLen == 3        \* longest []Value passed to All / Any
MaxStrLen == 2     \* longest string over SmallAlphabet passed to ConvertFromString
MaxInt == 3        \* ConvertFromInt64 is called with -MaxInt..MaxInt (and 12345)

----------------------------------------------------------------------------
(* type Value int8 and its constants (iota - 1).  TRUE and FALSE are       *)
(* reserved words of TLA+, hence the suffix.                               *)

FALSE_V == 0 - 1
UNKNOWN == 0
TRUE_V  == 1

Value == {FALSE_V, UNKNOWN, TRUE_V}

nil == <<>>

\* var literals = map[Value]string{...}
literals == [v \in Value |->
               CASE v = FALSE_V -> <<"F","A","L","S","E">>
                 [] v = UNKNOWN -> <<"U","N","K","N","O","W","N">>
                 [] v = TRUE_V  -> <<"T","R","U","E">>]

----------------------------------------------------------------------------
(* strings.ToUpper on ASCII text.                                          *)

LowerLetters == <<"a","b","c","d","e","f","g","h","i","j","k","l","m",
                  "n","o","p","q","r","s","t","u","v","w","x","y","z">>
UpperLetters == <<"A","B","C","D","E","F","G","H","I","J","K","L","M",
                  "N","O","P","Q","R","S","T","U","V","W","X","Y","Z">>

UpperChar(c) ==
    IF \E k \in 1..26 : LowerLetters[k] = c
    THEN UpperLetters[CHOOSE k \in 1..26 : LowerLetters[k] = c]
    ELSE c

LowerChar(c) ==
    IF \E k \in 1..26 : UpperLetters[k] = c
    THEN LowerLetters[CHOOSE k \in 1..26 : UpperLetters[k] = c]
    ELSE c

RECURSIVE ToUpper(_)
ToUpper(s) ==
    IF s = <<>> THEN <<>> ELSE <<UpperChar(Head(s))>> \o ToUpper(Tail(s))

\* fmt's %q on text without quotes, backslashes or unprintable characters
Quote(s) == <<"\"">> \o s \o <<"\"">>

----------------------------------------------------------------------------
(* Methods of Value.                                                       *)

String(value) == literals[value]

\* reflect.ValueOf(value).Int(): the int8 widened to int64
Value_Int(value) == value

ParseBool(value) == IF value # TRUE_V THEN FALSE ELSE TRUE

----------------------------------------------------------------------------
(* Conversions.  A result is the tuple <<Value, error>>.                   *)

ConvertFromStringSilent(s) ==
    LET u == ToUpper(s) IN
    CASE u \in {<<"F","A","L","S","E">>, <<"-","1">>} -> <<FALSE_V, nil>>
      [] u \in {<<"T","R","U","E">>, <<"1">>} -> <<TRUE_V, nil>>
      [] OTHER -> <<UNKNOWN, nil>>

ConvertFromString(s) ==
    LET u == ToUpper(s) IN
    CASE u \in {<<"F","A","L","S","E">>, <<"-","1">>} -> <<FALSE_V, nil>>
      [] u \in {<<"T","R","U","E">>, <<"1">>} -> <<TRUE_V, nil>>
      [] u \in {<<"U","N","K","N","O","W","N">>, <<"0">>} -> <<UNKNOWN, nil>>
      [] OTHER -> <<UNKNOWN, <<"convert from ", Quote(s), ": invalid value">> >>

ConvertFromInt64NoMinus(n) ==
    CASE n = 0 -> <<UNKNOWN, nil>>
      [] n = 1 -> <<TRUE_V, nil>>
      [] OTHER -> <<UNKNOWN, <<"convert from ", n, ": invalid value">> >>

ConvertFromInt64(n) ==
    CASE n = 0 - 1 -> <<FALSE_V, nil>>
      [] n = 0 -> <<UNKNOWN, nil>>
      [] n = 1 -> <<TRUE_V, nil>>
      [] OTHER -> <<UNKNOWN, <<"convert from ", n, ": invalid value">> >>

ConvertFromBool(b) == IF b THEN TRUE_V ELSE FALSE_V

----------------------------------------------------------------------------
(* Operators.                                                              *)

Equal(a, b) == IF a = b THEN TRUE_V ELSE FALSE_V

Not(a) ==
    CASE a = FALSE_V -> TRUE_V
      [] a = TRUE_V -> FALSE_V
      [] OTHER -> UNKNOWN

AndUnknownFirst(a, b) ==
    CASE a = UNKNOWN \/ b = UNKNOWN -> UNKNOWN
      [] a = FALSE_V \/ b = FALSE_V -> FALSE_V
      [] OTHER -> TRUE_V

And(a, b) ==
    CASE a = FALSE_V \/ b = FALSE_V -> FALSE_V
      [] a = UNKNOWN \/ b = UNKNOWN -> UNKNOWN
      [] OTHER -> TRUE_V

OrUnknownFirst(a, b) ==
    CASE a = UNKNOWN \/ b = UNKNOWN -> UNKNOWN
      [] a = TRUE_V \/ b = TRUE_V -> TRUE_V
      [] OTHER -> FALSE_V

Or(a, b) ==
    CASE a = TRUE_V \/ b = TRUE_V -> TRUE_V
      [] a = UNKNOWN \/ b = UNKNOWN -> UNKNOWN
      [] OTHER -> FALSE_V

ImpConverse(a, b) == Or(Not(b), a)

ImpNoNot(a, b) == Or(a, b)

Imp(a, b) == Or(Not(a), b)

EqvNoUnknown(a, b) == ConvertFromBool(a = b)

EqvLeftOnly(a, b) ==
    IF a = UNKNOWN THEN UNKNOWN ELSE ConvertFromBool(a = b)

Eqv(a, b) ==
    IF a = UNKNOWN \/ b = UNKNOWN THEN UNKNOWN ELSE ConvertFromBool(a = b)

----------------------------------------------------------------------------
(* Inputs.                                                                 *)

\* every spelling of lit in mixed case
CaseVariants(lit) ==
    { [k \in 1..Len(lit) |-> IF m[k] THEN LowerChar(lit[k]) ELSE lit[k]] :
        m \in [1..Len(lit) -> BOOLEAN] }

SmallAlphabet == {"-", "0", "1", "2", "t", "T"}

SeqsUpTo(S, n) == UNION { [1..k -> S] : k \in 0..n }

OtherStrings ==
    { <<"P","a","r","s","e","E","r","r","o","r">>,
      <<"T","R","U">>, <<"t","r","u","e","e">>, <<" ","t","r","u","e">>,
      <<"F","A","L","S">>, <<"u","n","k","n","o","w">>, <<"n","u","l","l">>,
      <<"+","1">>, <<"-","1","0">>, <<"1",".","0">> }

Strings ==
    CaseVariants(literals[FALSE_V]) \cup CaseVariants(literals[UNKNOWN])
      \cup CaseVariants(literals[TRUE_V])
      \cup SeqsUpTo(SmallAlphabet, MaxStrLen) \cup OtherStrings

Int64s == ((0 - MaxInt)..MaxInt) \cup {12345}

ValueLists == SeqsUpTo(Value, MaxLen)

----------------------------------------------------------------------------
(* The caller.                                                             *)

Init ==
    /\ fn = "none"
    /\ args = <<>>
    /\ ret = <<>>
    /\ pc = "idle"
    /\ t = UNKNOWN
    /\ i = 0
    /\ examined = {}

\* a call of a loop-free function: it returns in the same step
Call(f, a, r) ==
    /\ pc = "idle"
    /\ fn' = f
    /\ args' = a
    /\ ret' = r
    /\ pc' = "idle"
    /\ t' = UNKNOWN
    /\ i' = 0
    /\ examined' = {}

CallString == \E v \in Value : Call("String", <<v>>, <<String(v)>>)

CallInt == \E v \in Value : Call("Int", <<v>>, <<Value_Int(v)>>)

CallParseBool == \E v \in Value : Call("ParseBool", <<v>>, <<ParseBool(v)>>)

CallConvertFromString ==
    \E s \in Strings : Call("ConvertFromString", <<s>>, ConvertFromString(s))

CallConvertFromInt64 ==
    \E n \in Int64s : Call("ConvertFromInt64", <<n>>, ConvertFromInt64(n))

CallConvertFromBool ==
    \E b \in BOOLEAN : Call("ConvertFromBool", <<b>>, <<ConvertFromBool(b)>>)

CallEqual == \E a, b \in Value : Call("Equal", <<a, b>>, <<Equal(a, b)>>)

CallNot == \E a \in Value : Call("Not", <<a>>, <<Not(a)>>)

CallAnd == \E a, b \in Value : Call("And", <<a, b>>, <<And(a, b)>>)

CallOr == \E a, b \in Value : Call("Or", <<a, b>>, <<Or(a, b)>>)

CallImp == \E a, b \in Value : Call("Imp", <<a, b>>, <<Imp(a, b)>>)

CallEqv == \E a, b \in Value : Call("Eqv", <<a, b>>, <<Eqv(a, b)>>)

----------------------------------------------------------------------------
(* All, statement by statement.  i is the Go index (values[i] is           *)
(* args[1][i + 1]); examined is the set of Go indices read so far.         *)

AllEntryUnknown ==
    \E values \in ValueLists :
        /\ pc = "idle"
        /\ fn' = "All"
        /\ args' = <<values>>
        /\ ret' = <<>>
        /\ t' = IF 0 < Len(values) THEN values[1] ELSE UNKNOWN
        /\ examined' = IF 0 < Len(values) THEN {0} ELSE {}
        /\ i' = 1
        /\ pc' = "All"

\* t := TRUE; if 0 < len(values) { t = values[0] }; i := 1
AllEntry ==
    \E values \in ValueLists :
        /\ pc = "idle"
        /\ fn' = "All"
        /\ args' = <<values>>
        /\ ret' = <<>>
        /\ t' = IF 0 < Len(values) THEN values[1] ELSE TRUE_V
        /\ examined' = IF 0 < Len(values) THEN {0} ELSE {}
        /\ i' = 1
        /\ pc' = "All"

AllLoopNoBreak ==
    /\ pc = "All"
    /\ i < Len(args[1])
    /\ t' = And(t, args[1][i + 1])
    /\ examined' = examined \cup {i}
    /\ i' = i + 1
    /\ UNCHANGED <<pc, ret, fn, args>>

\* one iteration: t = And(t, values[i]); if t == FALSE { return FALSE }; i++
AllLoop ==
    /\ pc = "All"
    /\ i < Len(args[1])
    /\ t' = And(t, args[1][i + 1])
    /\ examined' = examined \cup {i}
    /\ IF t' = FALSE_V
       THEN /\ ret' = <<FALSE_V>>
            /\ pc' = "idle"
            /\ i' = i
       ELSE /\ i' = i + 1
            /\ UNCHANGED <<pc, ret>>
    /\ UNCHANGED <<fn, args>>

\* the loop condition fails: return t
AllReturn ==
    /\ pc = "All"
    /\ ~(i < Len(args[1]))
    /\ ret' = <<t>>
    /\ pc' = "idle"
    /\ UNCHANGED <<fn, args, t, i, examined>>

----------------------------------------------------------------------------
(* Any, statement by statement.                                            *)

\* t := FALSE; if 0 < len(values) { t = values[0] }; i := 1
AnyEntry ==
    \E values \in ValueLists :
        /\ pc = "idle"
        /\ fn' = "Any"
        /\ args' = <<values>>
        /\ ret' = <<>>
        /\ t' = IF 0 < Len(values) THEN values[1] ELSE FALSE_V
        /\ examined' = IF 0 < Len(values) THEN {0} ELSE {}
        /\ i' = 1
        /\ pc' = "Any"

\* one iteration: t = Or(t, values[i]); if t == TRUE { return TRUE }; i++
AnyLoop ==
    /\ pc = "Any"
    /\ i < Len(args[1])
    /\ t' = Or(t, args[1][i + 1])
    /\ examined' = examined \cup {i}
    /\ IF t' = TRUE_V
       THEN /\ ret' = <<TRUE_V>>
            /\ pc' = "idle"
            /\ i' = i
       ELSE /\ i' = i + 1
            /\ UNCHANGED <<pc, ret>>
    /\ UNCHANGED <<fn, args>>

\* the loop condition fails: return t
AnyReturn ==
    /\ pc = "Any"
    /\ ~(i < Len(args[1]))
    /\ ret' = <<t>>
    /\ pc' = "idle"
    /\ UNCHANGED <<fn, args, t, i, examined>>

----------------------------------------------------------------------------

Next ==
    \/ CallString
    \/ CallInt
    \/ CallParseBool
    \/ CallConvertFromString
    \/ CallConvertFromInt64
    \/ CallConvertFromBool
    \/ CallEqual
    \/ CallNot
    \/ CallAnd
    \/ CallOr
    \/ CallImp
    \/ CallEqv
    \/ AllEntry
    \/ AllLoop
    \/ AllReturn
    \/ AnyEntry
    \/ AnyLoop
    \/ AnyReturn

Spec == Init /\ [][Next]_vars

\* the call named by fn has returned
Returned(f) == fn = f /\ pc = "idle"

TypeOK ==
    /\ pc \in {"idle", "All", "Any"}
    /\ t \in Value
    /\ i \in 0..(MaxLen + 1)
    /\ examined \subseteq 0..MaxLen

----------------------------------------------------------------------------
(* Properties.  In each, a and b are the operands of the returned call.    *)

Min(x, y) == IF x <= y THEN x ELSE y
Max(x, y) == IF x >= y THEN x ELSE y

\* C1: And(a, b) is the minimum and Or(a, b) the maximum of a and b under
\* FALSE(-1) < UNKNOWN(0) < TRUE(1): And is FALSE if either operand is FALSE,
\* otherwise UNKNOWN if either is UNKNOWN, otherwise TRUE; Or is TRUE if
\* either operand is TRUE, otherwise UNKNOWN if either is UNKNOWN, otherwise
\* FALSE.
C1_AndMinOrMax ==
    /\ Returned("And") =>
         LET a == args[1]
             b == args[2]
         IN  /\ ret = <<Min(a, b)>>
             /\ (a = FALSE_V \/ b = FALSE_V) => ret = <<FALSE_V>>
             /\ (a # FALSE_V /\ b # FALSE_V /\ (a = UNKNOWN \/ b = UNKNOWN))
                  => ret = <<UNKNOWN>>
             /\ (a = TRUE_V /\ b = TRUE_V) => ret = <<TRUE_V>>
    /\ Returned("Or") =>
         LET a == args[1]
             b == args[2]
         IN  /\ ret = <<Max(a, b)>>
             /\ (a = TRUE_V \/ b = TRUE_V) => ret = <<TRUE_V>>
             /\ (a # TRUE_V /\ b # TRUE_V /\ (a = UNKNOWN \/ b = UNKNOWN))
                  => ret = <<UNKNOWN>>
             /\ (a = FALSE_V /\ b = FALSE_V) => ret = <<FALSE_V>>

\* FALSE dominates an UNKNOWN operand
C1_Witness == Returned("And") /\ args = <<FALSE_V, UNKNOWN>> /\ ret = <<FALSE_V>>

ReadmeIMP ==
    [A \in Value |->
       CASE A = FALSE_V -> [B \in Value |-> CASE B = FALSE_V -> TRUE_V
                                              [] B = UNKNOWN -> UNKNOWN
                                              [] B = TRUE_V -> FALSE_V]
         [] A = UNKNOWN -> [B \in Value |-> CASE B = FALSE_V -> TRUE_V
                                              [] B = UNKNOWN -> UNKNOWN
                                              [] B = TRUE_V -> UNKNOWN]
         [] A = TRUE_V  -> [B \in Value |-> TRUE_V]]

\* the IMP(A, B) table of the package documentation: PackageIMP[A][B]
PackageIMP ==
    [A \in Value |->
       CASE A = FALSE_V -> [B \in Value |-> TRUE_V]
         [] A = UNKNOWN -> [B \in Value |-> CASE B = FALSE_V -> UNKNOWN
                                              [] B = UNKNOWN -> UNKNOWN
                                              [] B = TRUE_V -> TRUE_V]
         [] A = TRUE_V  -> [B \in Value |-> CASE B = FALSE_V -> FALSE_V
                                              [] B = UNKNOWN -> UNKNOWN
                                              [] B = TRUE_V -> TRUE_V]]

C6_DeMorgan ==
    /\ Returned("And") => Not(ret[1]) = Or(Not(args[1]), Not(args[2]))
    /\ Returned("Or") => Not(ret[1]) = And(Not(args[1]), Not(args[2]))

C6_Witness ==
    /\ Returned("Or")
    /\ args = <<UNKNOWN, FALSE_V>>
    /\ Not(ret[1]) = UNKNOWN
    /\ And(Not(args[1]), Not(args[2])) = UNKNOWN

\* C7: conversions round-trip for every v: ConvertFromInt64(v.Int()) returns
\* v with no error, and ConvertFromString(v.String()) returns v with no
\* error.
C7_RoundTrip ==
    \A v \in Value :
        /\ (Returned("ConvertFromInt64") /\ args = <<Value_Int(v)>>)
             => ret = <<v, nil>>
        /\ (Returned("ConvertFromString") /\ args = <<String(v)>>)
             => ret = <<v, nil>>

C7_Witness ==
    /\ Returned("ConvertFromInt64")
    /\ args = <<Value_Int(FALSE_V)>>
    /\ ret = <<FALSE_V, nil>>

\* the six literals ConvertFromString recognizes, in upper case
RecognizedLiterals ==
    { <<"F","A","L","S","E">>, <<"-","1">>,
      <<"U","N","K","N","O","W","N">>, <<"0">>,
      <<"T","R","U","E">>, <<"1">> }

\* C8: given an input that, uppercased, is not one of the six recognized
\* literals, ConvertFromString fails with an error identifying the original
\* input, and the outcome is not the one of a successful conversion to
\* UNKNOWN (the Value beside the error is the zero Value, a placeholder).
C8_InvalidLiteral ==
    (Returned("ConvertFromString") /\ ToUpper(args[1]) \notin RecognizedLiterals)
      => /\ ret[2] # nil
         /\ ret[2] = <<"convert from ", <<"\"">> \o args[1] \o <<"\"">>,
                       ": invalid value">>
         /\ ret # <<UNKNOWN, nil>>
         /\ ret[1] = 0

\* a mixed-case input: the message carries it as given, not uppercased
C8_Witness ==
    /\ Returned("ConvertFromString")
    /\ args = << <<"P","a","r","s","e","E","r","r","o","r">> >>
    /\ ret[2] = <<"convert from ",
                  <<"\"","P","a","r","s","e","E","r","r","o","r","\"">>,
                  ": invalid value">>

\* n-ary conjunction and disjunction of a sequence
Conjunction(values) ==
    IF \E k \in 1..Len(values) : values[k] = FALSE_V THEN FALSE_V
    ELSE IF \E k \in 1..Len(values) : values[k] = UNKNOWN THEN UNKNOWN
    ELSE TRUE_V

Disjunction(values) ==
    IF \E k \in 1..Len(values) : values[k] = TRUE_V THEN TRUE_V
    ELSE IF \E k \in 1..Len(values) : values[k] = UNKNOWN THEN UNKNOWN
    ELSE FALSE_V

\* C9: for every sequence, of any length including zero, All returns the
\* n-ary conjunction (TRUE for the empty sequence) and Any the n-ary
\* disjunction (FALSE for the empty sequence).
C9_AllAny ==
    /\ Returned("All") =>
         /\ ret = <<Conjunction(args[1])>>
         /\ args[1] = <<>> => ret = <<TRUE_V>>
    /\ Returned("Any") =>
         /\ ret = <<Disjunction(args[1])>>
         /\ args[1] = <<>> => ret = <<FALSE_V>>

C9_Witness == Returned("All") /\ args = << <<>> >> /\ ret = <<TRUE_V>>

\* the value that decides the reduction fn
Dominant == IF fn = "All" THEN FALSE_V ELSE TRUE_V

\* Go index of the first dominant element, len(values) if there is none
FirstDominant(values) ==
    IF \E k \in 1..Len(values) : values[k] = Dominant
    THEN (CHOOSE k \in 1..Len(values) :
            /\ values[k] = Dominant
            /\ \A l \in 1..(k - 1) : values[l] # Dominant) - 1
    ELSE Len(values)

\* C10 as stated: All examines no element after the first FALSE, and Any
\* no element after the first TRUE.
C10_NoneAfterFirst ==
    fn \in {"All", "Any"} =>
        \A j \in examined : \A k \in 0..(j - 1) : args[1][k + 1] # Dominant

\* the number of elements a scan reads: up to and including the first
\* dominant element, but the element at index 1 in any case
ScanLength(values) == Min(Len(values), Max(FirstDominant(values), 1) + 1)

\* C10 amended: All scans left to right and returns FALSE as soon as the
\* conjunction accumulated in the loop, which starts at index 1, is FALSE.
\* It examines no element after the first FALSE, except that a FALSE at
\* index 0 is not tested before the loop, so that the element at index 1,
\* when there is one, is examined as well.  Likewise Any with TRUE.
C10_ScanAmended ==
    fn \in {"All", "Any"} =>
        LET values == args[1] IN
        /\ examined \subseteq 0..(ScanLength(values) - 1)
        /\ \A j \in examined : \A k \in 0..(j - 1) :
              values[k + 1] = Dominant => (k = 0 /\ j = 1)
        /\ pc = "idle" =>
              /\ examined = 0..(ScanLength(values) - 1)
              /\ FirstDominant(values) < Len(values) => ret = <<Dominant>>

\* FALSE at index 0 of three elements: index 1 is read, index 2 is not
C10_Witness ==
    /\ Returned("All")
    /\ Len(args[1]) = 3
    /\ args[1][1] = FALSE_V
    /\ examined = {0, 1}
    /\ ret = <<FALSE_V>>

====
